---- MODULE Spec2Model ----
(***************************************************************************)
(* A model of porkctl (src/porkctl.py): a command line tool that keeps an  *)
(* API key/secret pair in the OS keyring and manages the DNS records of a  *)
(* registrar through PKBClient.                                            *)
(*                                                                         *)
(* One CLI invocation runs one command to completion, single-threaded, so  *)
(* every command is one action.  The action records in `last` what the     *)
(* invocation was given, the keyring and registrar operations it issued in *)
(* order (`trace`), the lines it printed (`out`) and whether an exception  *)
(* left the handler (`raised`).  Then the process exits (Exit): what       *)
(* outlives it is the keyring and the registrar's records.  `prev` is a    *)
(* history variable: the name and the record id of the create that the     *)
(* invocation before `last` was, if it was a create that succeeded.        *)
(* `hist` is a history variable too: whether a login whose ping returned a *)
(* valid IP address has run since the most recent logout, and which of     *)
(* login and logout reported success most recently.                        *)
(*                                                                         *)
(* extract_domain_subdomain is a helper no command calls.  SpecDecompose   *)
(* applies it on its own to the outputs of the classifier; `decomp` holds  *)
(* the classifier output it is applied to, how often it was called and     *)
(* what it returned.                                                       *)
(*                                                                         *)
(* Strings are sequences of tokens.  A domain name is a sequence of labels *)
(* separated by the token ".", so "www.example.com" is                     *)
(* <<"www", ".", "example", ".", "com">> and "" is <<>>.  The ping         *)
(* response is a sequence of characters.                                   *)
(*                                                                         *)
(* The record type, content and ttl options are handed to the registrar    *)
(* verbatim and take part in no decision of the program; they are left     *)
(* out of the registrar calls of the model.                                *)
(***************************************************************************)
EXTENDS Integers, Sequences, FiniteSets, TLC

VARIABLES store, records, last, prev, hist, decomp

vars == <<store, records, last, prev, hist, decomp>>

----------------------------------------------------------------------------
(* Bounds of the model *)

\* the registrar holds at most MaxRecords records
MaxRecords == 2

\* the helper extract_domain_subdomain is called at most MaxCalls times on
\* one input
MaxCalls == 3

----------------------------------------------------------------------------
(* Strings *)

Dot == "."

\* Python's None
None == "None"

\* the empty string
Empty == <<>>

\* the names a user passes as --name / NAME
Names ==
  { <<"example", Dot, "com">>,
    <<"www", Dot, "example", Dot, "com">>,
    <<"www", Dot, "example", Dot, "co", Dot, "uk">>,
    <<"www", Dot, "example", Dot, "com", Dot>>,
    <<"localhost">> }

\* the key/secret pairs a user enters at the login prompt
Entered == { <<"k1", "s1">>, <<"k2", "s2">> }

\* what PKBClient.ping() can return
PingResponses ==
  { <<"1", Dot, "2", Dot, "3", Dot, "4">>,
    <<"e", "r", "r">>,
    <<"e", "r", "r", Dot, "n", "o", Dot, "i", "p">>,
    <<"1", Dot, "2", Dot, "3", Dot, "4", Dot, "5">> }

\* str.join over the parts of a sequence of strings
RECURSIVE Join(_, _)
Join(sep, parts) ==
  IF parts = <<>> THEN <<>>
  ELSE IF Len(parts) = 1 THEN parts[1]
  ELSE parts[1] \o <<sep>> \o Join(sep, Tail(parts))

\* the generator expression without its `if part`
AllParts(parts) == parts

\* the generator expression (part for part in parts if part)
NonEmptyParts(parts) == SelectSeq(parts, LAMBDA p : p # Empty)

\* str.split(".") of a name, each label a token; no label for ""
RECURSIVE Labels(_)
Labels(s) ==
  IF s = <<>> THEN <<>>
  ELSE IF Head(s) = Dot THEN Labels(Tail(s))
  ELSE <<Head(s)>> \o Labels(Tail(s))

----------------------------------------------------------------------------
(* IP addresses *)

Digits == {"0", "1", "2", "3", "4", "5", "6", "7", "8", "9"}

DigitValue(c) ==
  CASE c = "0" -> 0 [] c = "1" -> 1 [] c = "2" -> 2 [] c = "3" -> 3 [] c = "4" -> 4
    [] c = "5" -> 5 [] c = "6" -> 6 [] c = "7" -> 7 [] c = "8" -> 8 [] c = "9" -> 9

\* the parts of a character sequence between its dots, empty parts kept
RECURSIVE SplitOnDot(_)
SplitOnDot(s) ==
  IF \A i \in 1..Len(s) : s[i] # Dot THEN <<s>>
  ELSE LET k == CHOOSE i \in 1..Len(s) : s[i] = Dot /\ \A j \in 1..(i - 1) : s[j] # Dot
       IN  <<SubSeq(s, 1, k - 1)>> \o SplitOnDot(SubSeq(s, k + 1, Len(s)))

RECURSIVE Decimal(_)
Decimal(part) ==
  IF part = <<>> THEN 0
  ELSE 10 * Decimal(SubSeq(part, 1, Len(part) - 1)) + DigitValue(part[Len(part)])

IsOctet(part) ==
  /\ Len(part) \in 1..3
  /\ \A i \in 1..Len(part) : part[i] \in Digits
  /\ Decimal(part) <= 255

\* a syntactically valid IP address: four octets in dotted decimal
IsValidIP(response) ==
  LET parts == SplitOnDot(response)
  IN  Len(parts) = 4 /\ \A i \in 1..4 : IsOctet(parts[i])

----------------------------------------------------------------------------
(* tldextract: the public suffix classifier *)

\* the public suffix list the classifier consults
PublicSuffixes == { <<"com">>, <<"uk">>, <<"co", "uk">> }

\* the classifier drops trailing dots before it splits the name
RECURSIVE StripTrailingDots(_)
StripTrailingDots(s) ==
  IF s # <<>> /\ s[Len(s)] = Dot THEN StripTrailingDots(SubSeq(s, 1, Len(s) - 1))
  ELSE s

lenient_netloc(name) == StripTrailingDots(name)

\* position of the first label of the longest public suffix, Len + 1 if none
suffix_index(labels) ==
  LET hits == { i \in 1..Len(labels) :
                  SubSeq(labels, i, Len(labels)) \in PublicSuffixes }
  IN  IF hits = {} THEN Len(labels) + 1
      ELSE CHOOSE i \in hits : \A j \in hits : i <= j

\* tldextract.extract(name): the ExtractResult (subdomain, domain, suffix)
extract(name) ==
  LET labels == Labels(lenient_netloc(name))
      si     == suffix_index(labels)
  IN  [ subdomain |-> IF si >= 3
                      THEN Join(Dot, [i \in 1..(si - 2) |-> <<labels[i]>>])
                      ELSE Empty,
        domain    |-> IF si >= 2 THEN <<labels[si - 1]>> ELSE Empty,
        suffix    |-> Join(Dot, [i \in 1..(Len(labels) - si + 1) |->
                                   <<labels[si + i - 1]>>]) ]

----------------------------------------------------------------------------
(* What an invocation leaves behind *)

\* a keyring operation in the trace of an invocation
StoreEv(op, field, val, ok) ==
  [ op |-> op, field |-> field, val |-> val, cred |-> <<>>,
    domain |-> Empty, name |-> Empty, id |-> 0, ok |-> ok ]

\* a registrar call in the trace of an invocation, made by a client that was
\* constructed with the credential pair cred
RegEv(op, cred, domain, name, id, ok) ==
  [ op |-> op, field |-> "", val |-> "", cred |-> cred,
    domain |-> domain, name |-> name, id |-> id, ok |-> ok ]

\* a printed line: what kind of line, and the name and id it mentions
Line(kind, name, id) == [ kind |-> kind, name |-> name, id |-> id ]

StoreOps == {"get_password", "set_password", "delete_password"}

RegistrarOps == {"ping", "dns_create", "dns_retrieve", "dns_edit", "dns_delete"}

\* the events of a trace whose operation is in ops
Calls(trace, ops) == SelectSeq(trace, LAMBDA e : e.op \in ops)

\* the outcome of a handler: the keyring and the registrar after it, what it
\* did, what it printed, and whether an exception left the handler
Run(st, recs, trace, out, raised) ==
  [ store |-> st, records |-> recs,
    trace |-> trace, out |-> out, raised |-> raised ]

----------------------------------------------------------------------------
(* keyring: the credential store, two fields under SERVICE_ID *)

Fields == {"apikey", "apisecret"}

EmptyStore == [f \in Fields |-> None]

\* keyring.get_password: the stored value, None when the field is absent;
\* fail: the backend raises
get_password(st, field, fail) ==
  [ raised |-> fail, value |-> st[field] ]

\* keyring.set_password: overwrites the field; a backend that raises writes
\* nothing
set_password(st, field, val, fail) ==
  [ raised |-> fail,
    store  |-> IF fail THEN st ELSE [st EXCEPT ![field] = val] ]

\* keyring.delete_password: removes the field; the backends raise
\* PasswordDeleteError when there is no such password
delete_password(st, field, fail) ==
  LET r == fail \/ st[field] = None
  IN  [ raised |-> r,
        store  |-> IF r THEN st ELSE [st EXCEPT ![field] = None] ]

----------------------------------------------------------------------------
(* auth login / logout / status *)

\* the outcomes of client.ping(): it raises, or returns a response
PingOutcomes ==
  { [raised |-> TRUE, response |-> <<>>] } \cup
  { [raised |-> FALSE, response |-> r] : r \in PingResponses }

\* '.' in response
ContainsDot(response) == \E i \in 1..Len(response) : response[i] = Dot

\* the test login applies to the ping response before it stores anything
ping_accepted(response) == ContainsDot(response)

\* login(): ping with the entered pair, then store it.  sf is the index of the
\* keyring operation of this invocation whose backend raises (0: none)
login(st, recs, apikey, apisecret, ping, sf) ==
  LET pingEv == RegEv("ping", <<apikey, apisecret>>, Empty, Empty, 0, ~ping.raised)
  IN  IF ping.raised
      THEN Run(st, recs, <<pingEv>>, <<Line("FailedVerify", Empty, 0)>>, FALSE)
      ELSE IF ~ping_accepted(ping.response)
      THEN Run(st, recs, <<pingEv>>, <<Line("InvalidCredentials", Empty, 0)>>, FALSE)
      ELSE
        LET w1 == set_password(st, "apikey", apikey, sf = 1)
            e1 == StoreEv("set_password", "apikey", apikey, ~w1.raised)
        IN  IF w1.raised
            THEN Run(w1.store, recs, <<pingEv, e1>>, <<>>, TRUE)
            ELSE
              LET w2 == set_password(w1.store, "apisecret", apisecret, sf = 2)
                  e2 == StoreEv("set_password", "apisecret", apisecret, ~w2.raised)
              IN  IF w2.raised
                  THEN Run(w2.store, recs, <<pingEv, e1, e2>>, <<>>, TRUE)
                  ELSE Run(w2.store, recs, <<pingEv, e1, e2>>,
                           <<Line("LoginOk", Empty, 0)>>, FALSE)

\* logout(): delete both fields, no exception handler
logout(st, recs, sf) ==
  LET d1 == delete_password(st, "apikey", sf = 1)
      e1 == StoreEv("delete_password", "apikey", "", ~d1.raised)
  IN  IF d1.raised
      THEN Run(d1.store, recs, <<e1>>, <<>>, TRUE)
      ELSE
        LET d2 == delete_password(d1.store, "apisecret", sf = 2)
            e2 == StoreEv("delete_password", "apisecret", "", ~d2.raised)
        IN  IF d2.raised
            THEN Run(d2.store, recs, <<e1, e2>>, <<>>, TRUE)
            ELSE Run(d2.store, recs, <<e1, e2>>,
                     <<Line("LoggedOut", Empty, 0)>>, FALSE)

\* status() removing an apikey that is stored without an apisecret
status_cleanup(st, recs, sf) ==
  LET g1 == get_password(st, "apikey", sf = 1)
      e1 == StoreEv("get_password", "apikey", g1.value, ~g1.raised)
  IN  IF g1.raised
      THEN Run(st, recs, <<e1>>, <<>>, TRUE)
      ELSE IF g1.value = None
      THEN Run(st, recs, <<e1>>, <<Line("NotLoggedIn", Empty, 0)>>, FALSE)
      ELSE
        LET g2 == get_password(st, "apisecret", sf = 2)
            e2 == StoreEv("get_password", "apisecret", g2.value, ~g2.raised)
        IN  IF g2.raised
            THEN Run(st, recs, <<e1, e2>>, <<>>, TRUE)
            ELSE IF g2.value = None
            THEN Run([st EXCEPT !["apikey"] = None], recs,
                     <<e1, e2, StoreEv("delete_password", "apikey", "", TRUE)>>,
                     <<Line("NotLoggedIn", Empty, 0)>>, FALSE)
            ELSE Run(st, recs, <<e1, e2>>, <<Line("LoggedIn", Empty, 0)>>, FALSE)

\* status() looking at the apikey field alone
status_apikey_only(st, recs, sf) ==
  LET g1 == get_password(st, "apikey", sf = 1)
      e1 == StoreEv("get_password", "apikey", g1.value, ~g1.raised)
  IN  IF g1.raised
      THEN Run(st, recs, <<e1>>, <<>>, TRUE)
      ELSE IF g1.value = None
      THEN Run(st, recs, <<e1>>, <<Line("NotLoggedIn", Empty, 0)>>, FALSE)
      ELSE Run(st, recs, <<e1>>, <<Line("LoggedIn", Empty, 0)>>, FALSE)

\* status(): `a is None or b is None` reads apisecret only when apikey is set
status(st, recs, sf) ==
  LET g1 == get_password(st, "apikey", sf = 1)
      e1 == StoreEv("get_password", "apikey", g1.value, ~g1.raised)
  IN  IF g1.raised
      THEN Run(st, recs, <<e1>>, <<>>, TRUE)
      ELSE IF g1.value = None
      THEN Run(st, recs, <<e1>>, <<Line("NotLoggedIn", Empty, 0)>>, FALSE)
      ELSE
        LET g2 == get_password(st, "apisecret", sf = 2)
            e2 == StoreEv("get_password", "apisecret", g2.value, ~g2.raised)
        IN  IF g2.raised
            THEN Run(st, recs, <<e1, e2>>, <<>>, TRUE)
            ELSE IF g2.value = None
            THEN Run(st, recs, <<e1, e2>>, <<Line("NotLoggedIn", Empty, 0)>>, FALSE)
            ELSE Run(st, recs, <<e1, e2>>, <<Line("LoggedIn", Empty, 0)>>, FALSE)

----------------------------------------------------------------------------
(* The registrar behind PKBClient *)

\* the domains the account holds; a call for another domain is an API error
OwnedDomains ==
  { <<"example", Dot, "com">>, <<"example", Dot, "co", Dot, "uk">> }

\* the name the registrar files a record under: subdomain.domain, or the
\* domain alone for the apex
FullName(domain, name) == Join(Dot, NonEmptyParts(<<name, domain>>))

\* the records with one id among recs
WithId(recs, domain, id) ==
  SelectSeq(recs, LAMBDA r : r.domain = domain /\ r.id = id)

\* an id no record of the registrar carries
FreshId(recs) ==
  CHOOSE i \in 1..(Len(recs) + 1) : \A k \in 1..Len(recs) : recs[k].id # i

\* dns_create: files a new record under a fresh id; atFront: where the
\* registrar places it in the order it returns records in
dns_create(recs, domain, name, atFront, fail) ==
  LET r == fail \/ domain \notin OwnedDomains
      rec == [ id |-> FreshId(recs), domain |-> domain,
               name |-> FullName(domain, name) ]
  IN  [ raised  |-> r,
        records |-> IF r THEN recs
                    ELSE IF atFront THEN <<rec>> \o recs ELSE Append(recs, rec) ]

\* dns_retrieve: the records of the domain, in the registrar's order
dns_retrieve(recs, domain, fail) ==
  LET r == fail \/ domain \notin OwnedDomains
  IN  [ raised |-> r,
        value  |-> IF r THEN <<>> ELSE SelectSeq(recs, LAMBDA x : x.domain = domain) ]

\* dns_edit: renames the record with this id of this domain
dns_edit(recs, record_id, domain, name, fail) ==
  LET r == fail \/ domain \notin OwnedDomains \/ WithId(recs, domain, record_id) = <<>>
  IN  [ raised  |-> r,
        records |-> IF r THEN recs
                    ELSE [ i \in 1..Len(recs) |->
                             IF recs[i].domain = domain /\ recs[i].id = record_id
                             THEN [recs[i] EXCEPT !.name = FullName(domain, name)]
                             ELSE recs[i] ] ]

\* dns_delete: removes the record with this id of this domain
dns_delete(recs, domain, record_id, fail) ==
  LET r == fail \/ domain \notin OwnedDomains \/ WithId(recs, domain, record_id) = <<>>
  IN  [ raised  |-> r,
        records |-> IF r THEN recs
                    ELSE SelectSeq(recs, LAMBDA x :
                                     ~(x.domain = domain /\ x.id = record_id)) ]

----------------------------------------------------------------------------
(* dns create / delete / list / update *)

\* get_credentials() reading apikey from the keyring again for its result
get_credentials_reread(st, sf) ==
  LET g1 == get_password(st, "apikey", sf = 1)
      e1 == StoreEv("get_password", "apikey", g1.value, ~g1.raised)
  IN  IF g1.raised
      THEN [ raised |-> TRUE, msg |-> "StoreError", trace |-> <<e1>>, cred |-> <<>> ]
      ELSE
        LET g2 == get_password(st, "apisecret", sf = 2)
            e2 == StoreEv("get_password", "apisecret", g2.value, ~g2.raised)
        IN  IF g2.raised
            THEN [ raised |-> TRUE, msg |-> "StoreError", trace |-> <<e1, e2>>,
                   cred |-> <<>> ]
            ELSE IF g1.value = None \/ g2.value = None
            THEN [ raised |-> TRUE, msg |-> "PleaseLogin", trace |-> <<e1, e2>>,
                   cred |-> <<>> ]
            ELSE [ raised |-> FALSE, msg |-> "", trace |-> <<e1, e2, e1>>,
                   cred |-> <<g1.value, g2.value>> ]

\* get_credentials() with `and` in the place of `or`
get_credentials_and(st, sf) ==
  LET g1 == get_password(st, "apikey", sf = 1)
      e1 == StoreEv("get_password", "apikey", g1.value, ~g1.raised)
  IN  IF g1.raised
      THEN [ raised |-> TRUE, msg |-> "StoreError", trace |-> <<e1>>, cred |-> <<>> ]
      ELSE
        LET g2 == get_password(st, "apisecret", sf = 2)
            e2 == StoreEv("get_password", "apisecret", g2.value, ~g2.raised)
        IN  IF g2.raised
            THEN [ raised |-> TRUE, msg |-> "StoreError", trace |-> <<e1, e2>>,
                   cred |-> <<>> ]
            ELSE IF g1.value = None /\ g2.value = None
            THEN [ raised |-> TRUE, msg |-> "PleaseLogin", trace |-> <<e1, e2>>,
                   cred |-> <<>> ]
            ELSE [ raised |-> FALSE, msg |-> "", trace |-> <<e1, e2>>,
                   cred |-> <<g1.value, g2.value>> ]

\* get_credentials(): reads both fields, then raises unless both are set.
\* A backend failure raises too, with the backend's message
get_credentials(st, sf) ==
  LET g1 == get_password(st, "apikey", sf = 1)
      e1 == StoreEv("get_password", "apikey", g1.value, ~g1.raised)
  IN  IF g1.raised
      THEN [ raised |-> TRUE, msg |-> "StoreError", trace |-> <<e1>>, cred |-> <<>> ]
      ELSE
        LET g2 == get_password(st, "apisecret", sf = 2)
            e2 == StoreEv("get_password", "apisecret", g2.value, ~g2.raised)
        IN  IF g2.raised
            THEN [ raised |-> TRUE, msg |-> "StoreError", trace |-> <<e1, e2>>,
                   cred |-> <<>> ]
            ELSE IF g1.value = None \/ g2.value = None
            THEN [ raised |-> TRUE, msg |-> "PleaseLogin", trace |-> <<e1, e2>>,
                   cred |-> <<>> ]
            ELSE [ raised |-> FALSE, msg |-> "", trace |-> <<e1, e2>>,
                   cred |-> <<g1.value, g2.value>> ]

\* the domain create and delete hand to the registrar:
\* '.'.join(part for part in [ext.domain, ext.suffix] if part)
registrable_domain(ext) == Join(Dot, NonEmptyParts(<<ext.domain, ext.suffix>>))

\* the domain update hands to the registrar:
\* '.'.join(part for part in ext if part), ext iterated as the tuple
\* (subdomain, domain, suffix)
update_domain(ext) ==
  Join(Dot, NonEmptyParts(<<ext.subdomain, ext.domain, ext.suffix>>))

\* create() calling dns_create a second time when the first call failed
create_retry(st, recs, name, atFront, sf, rf) ==
  LET c == get_credentials(st, sf)
  IN  IF c.raised
      THEN Run(st, recs, c.trace, <<Line(c.msg, Empty, 0)>>, FALSE)
      ELSE
        LET ext       == extract(name)
            subdomain == ext.subdomain
            domain    == registrable_domain(ext)
            r         == dns_create(recs, domain, subdomain, atFront, rf = 1)
            ev        == RegEv("dns_create", c.cred, domain, subdomain, 0, ~r.raised)
        IN  IF r.raised
            THEN Run(st, r.records, c.trace \o <<ev, ev>>,
                     <<Line("CreateFailed", Empty, 0)>>, FALSE)
            ELSE Run(st, r.records, c.trace \o <<ev>>,
                     <<Line("CreateOk", name, 0)>>, FALSE)

\* create(name, ...)
create(st, recs, name, atFront, sf, rf) ==
  LET c == get_credentials(st, sf)
  IN  IF c.raised
      THEN Run(st, recs, c.trace, <<Line(c.msg, Empty, 0)>>, FALSE)
      ELSE
        LET ext       == extract(name)
            subdomain == ext.subdomain
            domain    == registrable_domain(ext)
            r         == dns_create(recs, domain, subdomain, atFront, rf = 1)
            ev        == RegEv("dns_create", c.cred, domain, subdomain, 0, ~r.raised)
        IN  IF r.raised
            THEN Run(st, r.records, c.trace \o <<ev>>,
                     <<Line("CreateFailed", Empty, 0)>>, FALSE)
            ELSE Run(st, r.records, c.trace \o <<ev>>,
                     <<Line("CreateOk", name, 0)>>, FALSE)

\* the resolver with the id of the first record as the default
resolve_record_id_default(retrieved, name) ==
  LET hits == { i \in 1..Len(retrieved) : retrieved[i].name = name }
  IN  IF hits = {} THEN (IF retrieved = <<>> THEN 0 ELSE retrieved[1].id)
      ELSE retrieved[CHOOSE i \in hits : \A j \in hits : i <= j].id

\* the resolver taking the last record of the name
resolve_record_id_last(retrieved, name) ==
  LET hits == { i \in 1..Len(retrieved) : retrieved[i].name = name }
  IN  IF hits = {} THEN 0
      ELSE retrieved[CHOOSE i \in hits : \A j \in hits : i >= j].id

\* the resolver taking a record whose name ends with the name
resolve_record_id_suffix(retrieved, name) ==
  LET EndsWith(str) ==
        /\ Len(str) >= Len(name)
        /\ SubSeq(str, Len(str) - Len(name) + 1, Len(str)) = name
      hits == { i \in 1..Len(retrieved) : EndsWith(retrieved[i].name) }
  IN  IF hits = {} THEN 0
      ELSE retrieved[CHOOSE i \in hits : \A j \in hits : i <= j].id

\* the resolver comparing the record names with the subdomain of the name
resolve_record_id_subdomain(retrieved, name) ==
  LET sub  == extract(name).subdomain
      hits == { i \in 1..Len(retrieved) : retrieved[i].name = sub }
  IN  IF hits = {} THEN 0
      ELSE retrieved[CHOOSE i \in hits : \A j \in hits : i <= j].id

\* next((record["id"] for record in records if record["name"] == name), None);
\* 0 stands for None
resolve_record_id(retrieved, name) ==
  LET hits == { i \in 1..Len(retrieved) : retrieved[i].name = name }
  IN  IF hits = {} THEN 0
      ELSE retrieved[CHOOSE i \in hits : \A j \in hits : i <= j].id

\* delete(name)
delete(st, recs, name, sf, rf) ==
  LET c == get_credentials(st, sf)
  IN  IF c.raised
      THEN Run(st, recs, c.trace, <<Line(c.msg, Empty, 0)>>, FALSE)
      ELSE
        LET ext    == extract(name)
            domain == registrable_domain(ext)
            got    == dns_retrieve(recs, domain, rf = 1)
            ev1    == RegEv("dns_retrieve", c.cred, domain, Empty, 0, ~got.raised)
        IN  IF got.raised
            THEN Run(st, recs, c.trace \o <<ev1>>,
                     <<Line("DeleteFailed", Empty, 0)>>, FALSE)
            ELSE
              LET record_id == resolve_record_id(got.value, name)
              IN  IF record_id = 0
                  THEN Run(st, recs, c.trace \o <<ev1>>,
                           <<Line("NoRecord", name, 0)>>, FALSE)
                  ELSE
                    LET d   == dns_delete(recs, domain, record_id, rf = 2)
                        ev2 == RegEv("dns_delete", c.cred, domain, Empty,
                                     record_id, ~d.raised)
                    IN  IF d.raised
                        THEN Run(st, d.records, c.trace \o <<ev1, ev2>>,
                                 <<Line("DeleteFailed", Empty, 0)>>, FALSE)
                        ELSE Run(st, d.records, c.trace \o <<ev1, ev2>>,
                                 <<Line("DeleteOk", name, 0)>>, FALSE)

\* list() printing the records last to first
list_reversed(st, recs, name, sf, rf) ==
  LET c == get_credentials(st, sf)
  IN  IF c.raised
      THEN Run(st, recs, c.trace, <<Line(c.msg, Empty, 0)>>, FALSE)
      ELSE
        LET got == dns_retrieve(recs, name, rf = 1)
            ev  == RegEv("dns_retrieve", c.cred, name, Empty, 0, ~got.raised)
            n   == Len(got.value)
        IN  IF got.raised
            THEN Run(st, recs, c.trace \o <<ev>>,
                     <<Line("ListFailed", Empty, 0)>>, FALSE)
            ELSE Run(st, recs, c.trace \o <<ev>>,
                     <<Line("ListHeader", name, 0)>> \o
                     [ i \in 1..n |->
                         Line("Record", got.value[n + 1 - i].name,
                              got.value[n + 1 - i].id) ],
                     FALSE)

\* list(name): the name goes to the registrar as it was given
list(st, recs, name, sf, rf) ==
  LET c == get_credentials(st, sf)
  IN  IF c.raised
      THEN Run(st, recs, c.trace, <<Line(c.msg, Empty, 0)>>, FALSE)
      ELSE
        LET got == dns_retrieve(recs, name, rf = 1)
            ev  == RegEv("dns_retrieve", c.cred, name, Empty, 0, ~got.raised)
        IN  IF got.raised
            THEN Run(st, recs, c.trace \o <<ev>>,
                     <<Line("ListFailed", Empty, 0)>>, FALSE)
            ELSE Run(st, recs, c.trace \o <<ev>>,
                     <<Line("ListHeader", name, 0)>> \o
                     [ i \in 1..Len(got.value) |->
                         Line("Record", got.value[i].name, got.value[i].id) ],
                     FALSE)

\* update() printing its success line after the try block
update_always_ok(st, recs, record_id, name, sf, rf) ==
  LET c == get_credentials(st, sf)
  IN  IF c.raised
      THEN Run(st, recs, c.trace, <<Line(c.msg, Empty, 0)>>, FALSE)
      ELSE
        LET ext       == extract(name)
            subdomain == ext.subdomain
            domain    == update_domain(ext)
            r         == dns_edit(recs, record_id, domain, subdomain, rf = 1)
            ev        == RegEv("dns_edit", c.cred, domain, subdomain, record_id,
                               ~r.raised)
        IN  Run(st, r.records, c.trace \o <<ev>>,
                <<Line("UpdateOk", name, 0)>>, FALSE)

\* update(record_id, name, ...)
update(st, recs, record_id, name, sf, rf) ==
  LET c == get_credentials(st, sf)
  IN  IF c.raised
      THEN Run(st, recs, c.trace, <<Line(c.msg, Empty, 0)>>, FALSE)
      ELSE
        LET ext       == extract(name)
            subdomain == ext.subdomain
            domain    == update_domain(ext)
            r         == dns_edit(recs, record_id, domain, subdomain, rf = 1)
            ev        == RegEv("dns_edit", c.cred, domain, subdomain, record_id,
                               ~r.raised)
        IN  IF r.raised
            THEN Run(st, r.records, c.trace \o <<ev>>,
                     <<Line("UpdateFailed", Empty, 0)>>, FALSE)
            ELSE Run(st, r.records, c.trace \o <<ev>>,
                     <<Line("UpdateOk", name, 0)>>, FALSE)

----------------------------------------------------------------------------
(* extract_domain_subdomain *)

\* lines 84-86 of extract_domain_subdomain: from the classifier's result to
\* the pair (domain, subdomain)
domain_subdomain_of(ext) ==
  [ domain    |-> Join(Dot, NonEmptyParts(<<ext.domain, ext.suffix>>)),
    subdomain |-> ext.subdomain ]

\* extract_domain_subdomain(name): the decomposition of a name into its
\* registrable domain and its subdomain
extract_domain_subdomain(name) == domain_subdomain_of(extract(name))

\* results of the classifier the helper is applied to
ClassifierOutputs ==
  [ subdomain : { Empty, <<"www">>, <<"a", Dot, "b">>, <<"mail">> },
    domain    : { Empty, <<"example">>, <<"localhost">> },
    suffix    : { Empty, <<"com">>, <<"co", Dot, "uk">> } ]

NoExt == [ subdomain |-> Empty, domain |-> Empty, suffix |-> Empty ]

NoPair == [ domain |-> Empty, subdomain |-> Empty ]

\* the helper is not in use
NoDecomp == [ ext |-> NoExt, calls |-> 0, result |-> NoPair ]

----------------------------------------------------------------------------
(* The invocations *)

\* the operation of an invocation that fails for a reason of its own: none,
\* its first or second keyring operation, its first or second registrar call
\* after authentication.  The first failure ends every handler, so one
\* failure per invocation covers them all
Faults == {"none", "store1", "store2", "reg1", "reg2"}

StoreFaults == {"none", "store1", "store2"}

\* index of the failing keyring operation, 0: none
sfOf(fault) == IF fault = "store1" THEN 1 ELSE IF fault = "store2" THEN 2 ELSE 0

\* index of the failing registrar call, 0: none
rfOf(fault) == IF fault = "reg1" THEN 1 ELSE IF fault = "reg2" THEN 2 ELSE 0

\* the record ids a user passes to update
RecordIds == 1..MaxRecords

NoPing == [raised |-> FALSE, response |-> <<>>]

NoInvocation ==
  [ cmd |-> "none", name |-> Empty, record_id |-> 0, apikey |-> "", apisecret |-> "",
    ping |-> NoPing, fault |-> "none",
    store0 |-> EmptyStore, records0 |-> <<>>,
    trace |-> <<>>, out |-> <<>>, raised |-> FALSE ]

\* the lines that report success
SuccessKinds == {"LoginOk", "LoggedOut", "CreateOk", "DeleteOk", "UpdateOk"}

Succeeded(l) ==
  /\ ~l.raised
  /\ \E i \in 1..Len(l.out) : l.out[i].kind \in SuccessKinds

\* the ids of the records in recs
Ids(recs) == { recs[i].id : i \in 1..Len(recs) }

\* what is remembered of an invocation once it is over: for a create that
\* reported success, the name it was given and the id the registrar filed the
\* record under
Summary(l, recs) ==
  LET created == l.cmd = "create" /\ Succeeded(l)
  IN  [ created |-> created,
        name    |-> IF created THEN l.name ELSE Empty,
        id      |-> IF created THEN CHOOSE i \in Ids(recs) \ Ids(l.records0) : TRUE
                    ELSE 0 ]

\* what is remembered of the logins and logouts so far.  verified: a login
\* whose ping returned a valid IP address has run since the most recent
\* logout.  session: "login" after a login that reported success, until a
\* logout is run; "logout" after a logout that reported success, until a login
\* reports success; "none" otherwise
NoHistory == [ verified |-> FALSE, session |-> "none" ]

NextHistory(h, cmd, ping, run) ==
  [ verified |-> IF cmd = "logout" THEN FALSE
                 ELSE IF cmd = "login" /\ ~ping.raised /\ IsValidIP(ping.response)
                 THEN TRUE
                 ELSE h.verified,
    session  |-> IF cmd = "login" /\ Succeeded(run) THEN "login"
                 ELSE IF cmd = "logout" /\ Succeeded(run) THEN "logout"
                 ELSE IF cmd = "logout" /\ h.session = "login" THEN "none"
                 ELSE h.session ]

\* the invocation ends: the keyring and the registrar are as the handler left
\* them, and `last` tells what happened
Finish(cmd, name, record_id, apikey, apisecret, ping, fault, run) ==
  /\ Len(run.records) <= MaxRecords
  /\ store' = run.store
  /\ records' = run.records
  /\ UNCHANGED <<prev, decomp>>
  /\ hist' = NextHistory(hist, cmd, ping, run)
  /\ last' = [ cmd |-> cmd, name |-> name, record_id |-> record_id,
               apikey |-> apikey, apisecret |-> apisecret, ping |-> ping,
               fault |-> fault,
               store0 |-> store, records0 |-> records,
               trace |-> run.trace, out |-> run.out, raised |-> run.raised ]

\* no command is running: the shell is at its prompt
AtPrompt == last.cmd = "none"

Init ==
  /\ store = EmptyStore
  /\ records = <<>>
  /\ last = NoInvocation
  /\ prev = Summary(NoInvocation, <<>>)
  /\ hist = NoHistory
  /\ decomp = NoDecomp

Login ==
  /\ AtPrompt
  /\ \E c \in Entered, p \in PingOutcomes, f \in StoreFaults :
       Finish("login", Empty, 0, c[1], c[2], p, f,
              login(store, records, c[1], c[2], p, sfOf(f)))

Logout ==
  /\ AtPrompt
  /\ \E f \in StoreFaults :
       Finish("logout", Empty, 0, "", "", NoPing, f, logout(store, records, sfOf(f)))

Status ==
  /\ AtPrompt
  /\ \E f \in StoreFaults :
       Finish("status", Empty, 0, "", "", NoPing, f, status(store, records, sfOf(f)))

Create ==
  /\ AtPrompt
  /\ \E n \in Names, atFront \in BOOLEAN, f \in Faults \ {"reg2"} :
       Finish("create", n, 0, "", "", NoPing, f,
              create(store, records, n, atFront, sfOf(f), rfOf(f)))

Delete ==
  /\ AtPrompt
  /\ \E n \in Names, f \in Faults :
       Finish("delete", n, 0, "", "", NoPing, f,
              delete(store, records, n, sfOf(f), rfOf(f)))

List ==
  /\ AtPrompt
  /\ \E n \in Names, f \in Faults \ {"reg2"} :
       Finish("list", n, 0, "", "", NoPing, f,
              list(store, records, n, sfOf(f), rfOf(f)))

Update ==
  /\ AtPrompt
  /\ \E id \in RecordIds, n \in Names, f \in Faults \ {"reg2"} :
       Finish("update", n, id, "", "", NoPing, f,
              update(store, records, id, n, sfOf(f), rfOf(f)))

\* cli() returns and the process exits
Exit ==
  /\ last.cmd # "none"
  /\ last' = NoInvocation
  /\ prev' = Summary(last, records)
  /\ UNCHANGED <<store, records, hist, decomp>>

Next ==
  \/ Login
  \/ Logout
  \/ Status
  \/ Create
  \/ Delete
  \/ List
  \/ Update
  \/ Exit

Spec == Init /\ [][Next]_vars

----------------------------------------------------------------------------
(* The helper extract_domain_subdomain on its own *)

InitDecompose ==
  /\ store = EmptyStore
  /\ records = <<>>
  /\ last = NoInvocation
  /\ prev = Summary(NoInvocation, <<>>)
  /\ hist = NoHistory
  /\ decomp \in { [ ext |-> e, calls |-> 0, result |-> NoPair ] : e \in ClassifierOutputs }

\* one call of the helper on the classifier output
Decompose ==
  /\ decomp.calls < MaxCalls
  /\ decomp' = [ ext    |-> decomp.ext,
                 calls  |-> decomp.calls + 1,
                 result |-> domain_subdomain_of(decomp.ext) ]
  /\ UNCHANGED <<store, records, last, prev, hist>>

NextDecompose == Decompose

SpecDecompose == InitDecompose /\ [][NextDecompose]_vars

----------------------------------------------------------------------------
(* Vocabulary of the properties *)

DnsCmds == {"create", "delete", "list", "update"}

\* the keyring lacks a credential field
Lacks(st) == st["apikey"] = None \/ st["apisecret"] = None

\* every keyring read of the trace returned (the backend did not raise)
ReadsAnswered(trace) ==
  \A i \in 1..Len(trace) : trace[i].op = "get_password" => trace[i].ok

\* the kinds of the printed lines, in order
Kinds(out) == [ i \in 1..Len(out) |-> out[i].kind ]

\* the calls of one registrar operation in the last invocation
LastCalls(op) == Calls(last.trace, {op})

\* the list the registrar returned to the dns_retrieve call of the last
\* invocation (read only where that call was made and returned)
Retrieved == dns_retrieve(last.records0, LastCalls("dns_retrieve")[1].domain, FALSE).value

RetrieveReturned ==
  /\ LastCalls("dns_retrieve") # <<>>
  /\ LastCalls("dns_retrieve")[1].ok

\* the positions of the retrieved list whose record has exactly this name
Matches(name) == { i \in 1..Len(Retrieved) : Retrieved[i].name = name }

----------------------------------------------------------------------------
(* C1: credential gating *)

\* C1: a DNS command (create, delete, list, update) started with the apikey
\* field or the apisecret field missing from the keyring makes no registrar
\* call, changes nothing, ends normally and, the keyring having answered its
\* reads, prints the not-authenticated report and nothing else.
C1_CredentialGating ==
  (last.cmd \in DnsCmds /\ Lacks(last.store0)) =>
     /\ Calls(last.trace, RegistrarOps) = <<>>
     /\ records = last.records0
     /\ store = last.store0
     /\ ~last.raised
     /\ ReadsAnswered(last.trace) => last.out = <<Line("PleaseLogin", Empty, 0)>>

\* a DNS command was refused with only one of the two fields stored, the
\* registrar holding records
C1_Witness ==
  /\ last.cmd \in DnsCmds
  /\ last.store0["apikey"] # None
  /\ last.store0["apisecret"] = None
  /\ last.records0 # <<>>
  /\ last.out = <<Line("PleaseLogin", Empty, 0)>>

----------------------------------------------------------------------------
(* C2: login atomicity *)

\* C2: a login whose ping raised or returned something that is not a valid IP
\* address writes nothing to the keyring and leaves it as it was.
C2_LoginAtomicity ==
  (last.cmd = "login" /\ (last.ping.raised \/ ~IsValidIP(last.ping.response))) =>
     /\ Calls(last.trace, {"set_password", "delete_password"}) = <<>>
     /\ store = last.store0

----------------------------------------------------------------------------
(* C3: delete, no record of that name *)

\* C3: a delete that has credentials and retrieves a list with no record of
\* exactly the given name prints the not-found line for that name and nothing
\* else, calls dns_delete not at all and leaves the registrar's records as
\* they were; and no delete ever hands dns_delete the id that stands for None.
C3_DeleteNotFound ==
  /\ (last.cmd = "delete" /\ RetrieveReturned /\ Matches(last.name) = {}) =>
        /\ last.out = <<Line("NoRecord", last.name, 0)>>
        /\ LastCalls("dns_delete") = <<>>
        /\ records = last.records0
        /\ ~last.raised
  /\ last.cmd = "delete" =>
        \A i \in 1..Len(last.trace) :
           last.trace[i].op = "dns_delete" => last.trace[i].id # 0

\* a delete found no record of its name in a list that was not empty
C3_Witness ==
  /\ last.cmd = "delete"
  /\ RetrieveReturned
  /\ Retrieved # <<>>
  /\ Matches(last.name) = {}
  /\ last.out = <<Line("NoRecord", last.name, 0)>>

----------------------------------------------------------------------------
(* C4: the domain and name arguments of the registrar calls *)

\* the arguments of the trace's registrar calls agree with the decomposition
\* of the name the command was given
DecomposedArgs(trace, name) ==
  LET d == extract_domain_subdomain(name)
  IN  \A i \in 1..Len(trace) :
        LET e == trace[i]
        IN  /\ e.op \in {"dns_create", "dns_retrieve", "dns_edit", "dns_delete"}
                 => e.domain = d.domain
            /\ e.op \in {"dns_create", "dns_edit"} => e.name = d.subdomain
            /\ e.op = "dns_edit" => e.id = last.record_id

\* C4: create, delete and update hand their registrar calls the registrable
\* domain of the given name as the domain; create and update hand them its
\* subdomain as the record name; update hands them the given record id.
C4_RegistrableDomainArgument ==
  last.cmd \in {"create", "delete", "update"} => DecomposedArgs(last.trace, last.name)

----------------------------------------------------------------------------
(* C5: which record delete resolves a name to *)

\* C5: when the retrieved list holds records of exactly the given name, delete
\* calls dns_delete once, with the id of the first of them in the returned
\* order; it resolves no id only when the list holds no record of that name.
C5_ResolverSelection ==
  (last.cmd = "delete" /\ RetrieveReturned) =>
     /\ Matches(last.name) # {} =>
          /\ Len(LastCalls("dns_delete")) = 1
          /\ \E i \in Matches(last.name) :
               /\ \A j \in Matches(last.name) : i <= j
               /\ LastCalls("dns_delete")[1].id = Retrieved[i].id
     /\ LastCalls("dns_delete") = <<>> => Matches(last.name) = {}

\* a delete chose among two records of its name, the first of which does not
\* carry the smaller id
C5_Witness ==
  /\ last.cmd = "delete"
  /\ RetrieveReturned
  /\ Cardinality(Matches(last.name)) >= 2
  /\ \E i \in Matches(last.name) : Retrieved[1].id > Retrieved[i].id
  /\ LastCalls("dns_delete") # <<>>
  /\ LastCalls("dns_delete")[1].id = Retrieved[1].id

----------------------------------------------------------------------------
(* C6: create a name, then delete the same name *)

\* the records of recs filed under this name
Named(recs, name) == SelectSeq(recs, LAMBDA r : r.name = name)

\* the record the previous invocation created, as the registrar held it when
\* the last invocation started
CreatedRecord == WithId(last.records0, extract_domain_subdomain(prev.name).domain, prev.id)[1]

\* the last invocation is a delete, with credentials and with no call failing
\* for a reason of its own, of the name that the invocation before it created
\* a record for, and that record is the only one filed under its name
DeleteAfterCreate ==
  /\ last.cmd = "delete"
  /\ prev.created
  /\ last.name = prev.name
  /\ ~Lacks(last.store0)
  /\ last.fault = "none"
  /\ Len(Named(last.records0, CreatedRecord.name)) = 1

\* the delete resolved to the created record and removed exactly that record
DeletedCreatedRecord ==
  /\ Len(LastCalls("dns_delete")) = 1
  /\ LastCalls("dns_delete")[1].id = prev.id
  /\ LastCalls("dns_delete")[1].ok
  /\ records = SelectSeq(last.records0, LAMBDA r : r.id # prev.id)
  /\ last.out = <<Line("DeleteOk", last.name, 0)>>

\* the name is written the way the registrar files it: its subdomain, a dot
\* and its registrable domain, or the registrable domain alone
InRegistrarForm(name) ==
  LET d == extract_domain_subdomain(name)
  IN  name = FullName(d.domain, d.subdomain)

\* C6 as stated: after a successful create of any name n, a delete of the same
\* n resolves to the created record's id and deletes exactly that record, when
\* it is the only record of its name.
C6_RoundTripAnyName == DeleteAfterCreate => DeletedCreatedRecord

\* C6 amended: the same, for the names n written the way the registrar files
\* them (n = subdomain + "." + domain of its decomposition, or n = domain when
\* the subdomain is empty), apex names included.
C6_RoundTripNaming ==
  (DeleteAfterCreate /\ InRegistrarForm(last.name)) => DeletedCreatedRecord

\* an apex record was created and then deleted by name while the registrar
\* held another record of the same domain
C6_Witness ==
  /\ DeleteAfterCreate
  /\ InRegistrarForm(last.name)
  /\ extract(last.name).subdomain = Empty
  /\ Len(last.records0) >= 2
  /\ DeletedCreatedRecord

----------------------------------------------------------------------------
(* C7, C8: the two credential fields under failures *)

\* C7: after every completed invocation the keyring holds both fields or
\* neither.
C7_CredentialPair ==
  (store["apikey"] = None) <=> (store["apisecret"] = None)

\* the login wrote both fields
Stored ==
  /\ Len(LastCalls("set_password")) = 2
  /\ \A i \in 1..2 : LastCalls("set_password")[i].ok

\* C8: a login that does not get as far as having written both fields leaves
\* both fields with the values they had when it started.
C8_LoginFailureKeepsStore ==
  (last.cmd = "login" /\ ~Stored) => store = last.store0

----------------------------------------------------------------------------
(* C9: logout *)

\* C9: whatever the keyring holds (both fields, one, none), a logout whose
\* keyring backend is in order ends normally, prints its report and leaves
\* both fields absent; so it does when the fields are absent already.
C9_LogoutIdempotent ==
  (last.cmd = "logout" /\ last.fault = "none") =>
     /\ ~last.raised
     /\ last.out = <<Line("LoggedOut", Empty, 0)>>
     /\ store = EmptyStore

----------------------------------------------------------------------------
(* C10: status *)

\* C10: status changes neither the keyring nor the registrar and calls the
\* registrar not at all; the keyring having answered its reads, it prints
\* "logged in" when both fields are present and "not logged in" otherwise,
\* which is "logged in" exactly when get_credentials lets a DNS command pass.
C10_StatusPureRead ==
  last.cmd = "status" =>
     /\ store = last.store0
     /\ records = last.records0
     /\ Calls(last.trace, RegistrarOps \cup {"set_password", "delete_password"}) = <<>>
     /\ (ReadsAnswered(last.trace)) =>
          /\ ~last.raised
          /\ last.out = IF Lacks(last.store0)
                        THEN <<Line("NotLoggedIn", Empty, 0)>>
                        ELSE <<Line("LoggedIn", Empty, 0)>>
          /\ (last.out = <<Line("LoggedIn", Empty, 0)>>)
                <=> ~get_credentials(last.store0, 0).raised

\* status answered "not logged in" with the apikey field alone in the keyring
C10_Witness ==
  /\ last.cmd = "status"
  /\ last.store0["apikey"] # None
  /\ last.store0["apisecret"] = None
  /\ last.out = <<Line("NotLoggedIn", Empty, 0)>>

----------------------------------------------------------------------------
(* C11: the handlers as the last catch boundary *)

\* some keyring operation or registrar call of the trace raised
SomeCallFailed(trace) == \E i \in 1..Len(trace) : ~trace[i].ok

\* C11: no exception leaves a command handler, and an invocation in which a
\* keyring operation or a registrar call raised prints a message and ends
\* normally.
C11_FinalCatchBoundary ==
  last.cmd # "none" =>
     /\ ~last.raised
     /\ SomeCallFailed(last.trace) => last.out # <<>>

----------------------------------------------------------------------------
(* C12: one round trip per step, no retry *)

\* the registrar calls of the last invocation, in order
RegistrarCalls == Calls(last.trace, RegistrarOps)

\* the registrar operations a command may call
AllowedOps(cmd) ==
  CASE cmd = "login"  -> {"ping"}
    [] cmd = "create" -> {"dns_create"}
    [] cmd = "list"   -> {"dns_retrieve"}
    [] cmd = "update" -> {"dns_edit"}
    [] cmd = "delete" -> {"dns_retrieve", "dns_delete"}
    [] OTHER          -> {}

\* C12: an invocation calls each registrar operation of its command at most
\* once and no other registrar operation; in delete the dns_retrieve comes
\* before the dns_delete; and a registrar call that failed is the last
\* registrar call of its invocation.
C12_RoundTripBudget ==
  last.cmd # "none" =>
     /\ \A i \in 1..Len(RegistrarCalls) : RegistrarCalls[i].op \in AllowedOps(last.cmd)
     /\ \A op \in RegistrarOps : Len(LastCalls(op)) <= 1
     /\ LastCalls("dns_delete") # <<>> =>
          /\ Len(RegistrarCalls) = 2
          /\ RegistrarCalls[1].op = "dns_retrieve"
          /\ RegistrarCalls[2].op = "dns_delete"
     /\ \A i \in 1..Len(RegistrarCalls) :
          ~RegistrarCalls[i].ok => i = Len(RegistrarCalls)

\* a delete whose dns_retrieve failed, for a name the registrar holds a record
\* of, stopped there
C12_Witness ==
  /\ last.cmd = "delete"
  /\ LastCalls("dns_retrieve") # <<>>
  /\ ~LastCalls("dns_retrieve")[1].ok
  /\ Named(last.records0, last.name) # <<>>
  /\ Len(RegistrarCalls) = 1
  /\ records = last.records0

----------------------------------------------------------------------------
(* C13: login verifies, then persists *)

KeyringWrites == {"set_password", "delete_password"}

\* the ping of the last invocation returned a valid IP address
PingValid == ~last.ping.raised /\ IsValidIP(last.ping.response)

\* every keyring write of the trace comes after a ping that returned
WritesFollowPing(trace) ==
  \A i \in 1..Len(trace) :
     trace[i].op \in KeyringWrites =>
        \E j \in 1..(i - 1) : trace[j].op = "ping" /\ trace[j].ok

\* the keyring holds the pair that was entered, which is the pair the client
\* that pinged was built with
HoldsEnteredPair ==
  /\ store["apikey"] = last.apikey
  /\ store["apisecret"] = last.apisecret
  /\ LastCalls("ping")[1].cred = <<last.apikey, last.apisecret>>

\* C13: a login writes to the keyring only after its ping has returned, and
\* only if what the ping returned is a valid IP address; a login that has
\* written both fields leaves the entered key in apikey and the entered
\* secret in apisecret, the pair the ping was made with.
C13_VerifyThenPersist ==
  last.cmd = "login" =>
     /\ WritesFollowPing(last.trace)
     /\ Calls(last.trace, KeyringWrites) # <<>> => PingValid
     /\ Stored => HoldsEnteredPair

----------------------------------------------------------------------------
(* C14: the credentials over a sequence of invocations *)

LoggedInLine == <<Line("LoggedIn", Empty, 0)>>

NotLoggedInLine == <<Line("NotLoggedIn", Empty, 0)>>

\* the keyring holds a field only if a login whose ping returned a valid IP
\* address has run since the most recent logout
FieldsOnlyAfterVerifiedLogin ==
  (store["apikey"] # None \/ store["apisecret"] # None) => hist.verified

\* after a login that reported success, and before any logout, status
\* (its reads answered) reports "logged in"
StatusAfterLogin ==
  (last.cmd = "status" /\ hist.session = "login" /\ ReadsAnswered(last.trace)) =>
     last.out = LoggedInLine

\* after a logout that reported success, and until a login reports success,
\* status reports "not logged in" and the DNS commands are refused
RefusedAfterLogout ==
  hist.session = "logout" =>
     /\ (last.cmd = "status" /\ ReadsAnswered(last.trace)) => last.out = NotLoggedInLine
     /\ last.cmd \in DnsCmds =>
          /\ RegistrarCalls = <<>>
          /\ ReadsAnswered(last.trace) => last.out = <<Line("PleaseLogin", Empty, 0)>>

\* C14: from an empty keyring on, the keyring holds a credential field only
\* if a login whose ping returned a valid IP address has run since the most
\* recent logout; status after a successful login reports "logged in"; after
\* a successful logout, until the next successful login, status reports "not
\* logged in" and every DNS command is refused.
C14_CredentialLifecycle ==
  /\ FieldsOnlyAfterVerifiedLogin
  /\ StatusAfterLogin
  /\ RefusedAfterLogout

----------------------------------------------------------------------------
(* C15: what list prints *)

\* the record lines among the printed lines, in order
RecordLines(out) == SelectSeq(out, LAMBDA l : l.kind = "Record")

\* C15: list hands dns_retrieve the name it was given, as it was given, and,
\* the call having returned, prints after its heading one line per returned
\* record, in the order returned, and nothing else.
C15_ListOutput ==
  last.cmd = "list" =>
     /\ \A i \in 1..Len(RegistrarCalls) : RegistrarCalls[i].domain = last.name
     /\ RetrieveReturned =>
          /\ Len(last.out) = Len(Retrieved) + 1
          /\ last.out[1] = Line("ListHeader", last.name, 0)
          /\ Len(RecordLines(last.out)) = Len(Retrieved)
          /\ \A i \in 1..Len(Retrieved) :
               RecordLines(last.out)[i] = Line("Record", Retrieved[i].name, Retrieved[i].id)

\* list printed two records of different names, the first with the larger id
C15_Witness ==
  /\ last.cmd = "list"
  /\ RetrieveReturned
  /\ Len(Retrieved) = 2
  /\ Retrieved[1].id > Retrieved[2].id
  /\ Retrieved[1].name # Retrieved[2].name
  /\ Len(RecordLines(last.out)) = 2
  /\ RecordLines(last.out)[1].id = Retrieved[1].id

----------------------------------------------------------------------------
(* C16: the decomposition *)

\* domain and suffix with one dot between them, an empty part left out
DomainDotSuffix(ext) ==
  IF ext.domain = Empty THEN ext.suffix
  ELSE IF ext.suffix = Empty THEN ext.domain
  ELSE ext.domain \o <<Dot>> \o ext.suffix

\* the string neither starts nor ends with a dot and has no two dots in a row
NoStraySeparator(str) ==
  /\ str # Empty => (str[1] # Dot /\ str[Len(str)] # Dot)
  /\ \A i \in 1..(Len(str) - 1) : ~(str[i] = Dot /\ str[i + 1] = Dot)

\* C16: for every classifier output, each call of the helper returns as the
\* registrable domain the domain and the suffix joined by one dot, an empty
\* part left out (the empty string when both are empty, no leading, trailing
\* or doubled dot), and returns the subdomain as it is; every call on the
\* same input returns that same pair.
C16_Decomposition ==
  decomp.calls >= 1 =>
     /\ decomp.result.domain = DomainDotSuffix(decomp.ext)
     /\ NoStraySeparator(decomp.result.domain)
     /\ (decomp.ext.domain = Empty /\ decomp.ext.suffix = Empty)
           => decomp.result.domain = Empty
     /\ decomp.result.subdomain = decomp.ext.subdomain

\* the helper was called more than once on an output with a subdomain and a
\* suffix and no domain
C16_Witness ==
  /\ decomp.calls >= 2
  /\ decomp.ext.domain = Empty
  /\ decomp.ext.suffix # Empty
  /\ decomp.ext.subdomain # Empty
  /\ decomp.result.domain = decomp.ext.suffix

----------------------------------------------------------------------------
(* C17: what create, update and delete report *)

\* the last invocation is a DNS command that got its credentials
Authenticated ==
  /\ last.cmd \in DnsCmds
  /\ ~Lacks(last.store0)
  /\ Len(LastCalls("get_password")) = 2
  /\ ReadsAnswered(last.trace)

MutatingOp(cmd) ==
  CASE cmd = "create" -> "dns_create"
    [] cmd = "update" -> "dns_edit"
    [] cmd = "delete" -> "dns_delete"

OkKind(cmd) ==
  CASE cmd = "create" -> "CreateOk"
    [] cmd = "update" -> "UpdateOk"
    [] cmd = "delete" -> "DeleteOk"

FailedKind(cmd) ==
  CASE cmd = "create" -> "CreateFailed"
    [] cmd = "update" -> "UpdateFailed"
    [] cmd = "delete" -> "DeleteFailed"

\* the mutating registrar call of the last invocation was made and returned
MutatingCallReturned ==
  /\ LastCalls(MutatingOp(last.cmd)) # <<>>
  /\ LastCalls(MutatingOp(last.cmd))[1].ok

\* C17: a create, update or delete that got its credentials prints exactly
\* one line.  It is the command's success line, for the given name, exactly
\* when the mutating registrar call was made and returned; it is the
\* command's "Failed to ..." line when a registrar call raised; and it is
\* delete's not-found line when the retrieved list has no record of the name.
C17_OutcomeReporting ==
  (last.cmd \in {"create", "update", "delete"} /\ Authenticated) =>
     /\ ~last.raised
     /\ Len(last.out) = 1
     /\ (last.out[1] = Line(OkKind(last.cmd), last.name, 0)) <=> MutatingCallReturned
     /\ last.out[1].kind = OkKind(last.cmd) => MutatingCallReturned
     /\ SomeCallFailed(RegistrarCalls) <=> (last.out[1].kind = FailedKind(last.cmd))
     /\ (last.cmd = "delete" /\ RetrieveReturned /\ Matches(last.name) = {})
           <=> (last.out[1] = Line("NoRecord", last.name, 0))

\* an update of a record id the registrar does not hold reported the failure
C17_Witness ==
  /\ last.cmd = "update"
  /\ Authenticated
  /\ last.fault = "none"
  /\ last.records0 # <<>>
  /\ ~LastCalls("dns_edit")[1].ok
  /\ Kinds(last.out) = <<"UpdateFailed">>

----------------------------------------------------------------------------
(* C18: the keyring reads of an invocation *)

\* the reads of one field in the last invocation
Reads(field) ==
  SelectSeq(last.trace, LAMBDA e : e.op = "get_password" /\ e.field = field)

\* C18: whatever the command, an invocation reads the apikey field from the
\* keyring at most once and the apisecret field at most once.
C18_StoreReadOnce ==
  \A field \in Fields : Len(Reads(field)) <= 1

\* a delete read each field once and went on to make both its registrar calls
C18_Witness ==
  /\ last.cmd = "delete"
  /\ Len(Reads("apikey")) = 1
  /\ Len(Reads("apisecret")) = 1
  /\ Len(RegistrarCalls) = 2
  /\ RegistrarCalls[1].cred = RegistrarCalls[2].cred

----------------------------------------------------------------------------
(* C19: what delete removes *)

\* the records the last invocation removed from the registrar
Removed ==
  SelectSeq(last.records0, LAMBDA r : r.id \notin Ids(records))

\* C19: delete calls dns_delete at most once, and only after a dns_retrieve
\* that returned, with the domain it retrieved and with the id of a retrieved
\* record whose name is exactly the given name; every record it removes has
\* exactly that name.
C19_DeleteSafety ==
  last.cmd = "delete" =>
     /\ Len(LastCalls("dns_delete")) <= 1
     /\ LastCalls("dns_delete") # <<>> =>
          /\ RetrieveReturned
          /\ LastCalls("dns_delete")[1].domain = LastCalls("dns_retrieve")[1].domain
          /\ \E i \in Matches(last.name) :
               Retrieved[i].id = LastCalls("dns_delete")[1].id
     /\ \A i \in 1..Len(Removed) : Removed[i].name = last.name
     /\ Len(Removed) <= 1

\* delete removed the second of two retrieved records, the first of which has
\* a name that ends with the given name
C19_Witness ==
  /\ last.cmd = "delete"
  /\ RetrieveReturned
  /\ Len(Retrieved) = 2
  /\ Retrieved[1].name # last.name
  /\ Len(Retrieved[1].name) > Len(last.name)
  /\ Len(Removed) = 1
  /\ Removed[1].id = Retrieved[2].id

----------------------------------------------------------------------------
(* C20: which collaborator a command touches *)

DnsOps == {"dns_create", "dns_retrieve", "dns_edit", "dns_delete"}

\* the last invocation was refused for want of credentials, or failed
RefusedOrFailed ==
  /\ last.cmd \in DnsCmds
  /\ ~(last.cmd = "list" \/ Succeeded(last))

\* C20: create, delete, list, update and status leave the keyring as it was
\* and issue no keyring write; login and logout call no dns_ operation and
\* leave the registrar's records as they were; logout and status call the
\* registrar not at all; list, and every DNS command that was refused or
\* failed, leaves the registrar's records as they were.
C20_FrameConditions ==
  /\ last.cmd \in DnsCmds \cup {"status"} =>
        /\ store = last.store0
        /\ Calls(last.trace, KeyringWrites) = <<>>
  /\ last.cmd \in {"login", "logout", "status"} =>
        /\ Calls(last.trace, DnsOps) = <<>>
        /\ records = last.records0
  /\ last.cmd \in {"logout", "status"} => RegistrarCalls = <<>>
  /\ (last.cmd = "list" \/ RefusedOrFailed) => records = last.records0

\* a delete whose dns_delete call failed left the keyring and the records of
\* the registrar as they were
C20_Witness ==
  /\ last.cmd = "delete"
  /\ LastCalls("dns_delete") # <<>>
  /\ ~LastCalls("dns_delete")[1].ok
  /\ last.records0 # <<>>
  /\ records = last.records0
  /\ store = last.store0
  /\ ~Lacks(store)

====
